---- MODULE Spec2Model ----
(***************************************************************************)
(* Model of src-tauri/src/transcript.rs: the fetch_transcript command.     *)
(*                                                                         *)
(* One invocation is a chain of awaits.  Each action below is the code     *)
(* that runs between two awaits: it consumes what the awaited operation    *)
(* produced (a response, a body, a transport error) and runs up to the     *)
(* next await or to the return.  Texts that the code scans (page body,     *)
(* transcript URL, transcript body, caption text) are sequences of         *)
(* one-character strings, and the regular expressions and replacements     *)
(* are computed on those characters.                                       *)
(***************************************************************************)
EXTENDS Integers, Sequences, FiniteSets, TLC

(***************************************************************************)
(* Bounds of the model.                                                    *)
(***************************************************************************)
MaxTracks == 3
MaxElems == 2
MaxDecodeParts == 3

(***************************************************************************)
(* Option<T>: None is the empty sequence, Some(v) the one-element one.     *)
(***************************************************************************)
None == <<>>
Some(v) == <<v>>
IsSome(o) == Len(o) = 1
IsNone(o) == Len(o) = 0
Unwrap(o) == o[1]

(***************************************************************************)
(* Text helpers (str::contains, str::replace, literal matching).           *)
(***************************************************************************)
Str(parts) ==
    LET RECURSIVE Cat(_)
        Cat(i) == IF i > Len(parts) THEN <<>> ELSE parts[i] \o Cat(i + 1)
    IN  Cat(1)

StartsAt(s, i, lit) ==
    /\ i >= 1
    /\ i + Len(lit) - 1 <= Len(s)
    /\ \A k \in 1..Len(lit) : s[i + k - 1] = lit[k]

\* Position of the first occurrence of lit in s at or after i; 0 if none.
FindFrom(s, lit, i) ==
    LET RECURSIVE Find(_)
        Find(j) == IF j + Len(lit) - 1 > Len(s) THEN 0
                   ELSE IF StartsAt(s, j, lit) THEN j
                   ELSE Find(j + 1)
    IN  Find(i)

Contains(s, lit) == FindFrom(s, lit, 1) # 0

\* First position at or after i whose character is in stop; Len(s)+1 if none.
SpanEnd(s, i, stop) ==
    LET RECURSIVE Scan(_)
        Scan(j) == IF j > Len(s) THEN Len(s) + 1
                   ELSE IF s[j] \in stop THEN j
                   ELSE Scan(j + 1)
    IN  Scan(i)

\* str::replace: every non-overlapping occurrence, left to right.
Replace(s, from, to) ==
    LET RECURSIVE Rep(_)
        Rep(i) == IF i > Len(s) THEN <<>>
                  ELSE IF StartsAt(s, i, from) THEN to \o Rep(i + Len(from))
                  ELSE <<s[i]>> \o Rep(i + 1)
    IN  Rep(1)

(***************************************************************************)
(* decode_xml_entities                                                     *)
(***************************************************************************)
EntAmp == <<"&","a","m","p",";">>
EntLt == <<"&","l","t",";">>
EntGt == <<"&","g","t",";">>
EntQuot == <<"&","q","u","o","t",";">>
EntNum39 == <<"&","#","3","9",";">>
EntApos == <<"&","a","p","o","s",";">>

decode_without_apos(text) ==
    LET s1 == Replace(text, EntAmp, <<"&">>)
        s2 == Replace(s1, EntLt, <<"<">>)
        s3 == Replace(s2, EntGt, <<">">>)
        s4 == Replace(s3, EntQuot, <<"\"">>)
    IN  Replace(s4, EntNum39, <<"'">>)

decode_xml_entities(text) ==
    LET s1 == Replace(text, EntAmp, <<"&">>)
        s2 == Replace(s1, EntLt, <<"<">>)
        s3 == Replace(s2, EntGt, <<">">>)
        s4 == Replace(s3, EntQuot, <<"\"">>)
        s5 == Replace(s4, EntNum39, <<"'">>)
    IN  Replace(s5, EntApos, <<"'">>)

(***************************************************************************)
(* Results and errors.  The code returns Result<Vec<_>, String>; an error  *)
(* is modelled by the kind of its message, the stage whose transport       *)
(* failed (network errors) and the HTTP status the message carries.        *)
(***************************************************************************)
Pending == [state |-> "pending", kind |-> "", stage |-> "", status |-> 0, segments |-> <<>>]
Err(kind) == [state |-> "Err", kind |-> kind, stage |-> "", status |-> 0, segments |-> <<>>]
ErrNet(stage) == [state |-> "Err", kind |-> "NetworkError", stage |-> stage, status |-> 0, segments |-> <<>>]
ErrHttp(kind, status) == [state |-> "Err", kind |-> kind, stage |-> "", status |-> status, segments |-> <<>>]
Ok(segs) == [state |-> "Ok", kind |-> "", stage |-> "", status |-> 0, segments |-> segs]
\* no early return: the function goes on
Stay == [state |-> "go", kind |-> "", stage |-> "", status |-> 0, segments |-> <<>>]

is_success_no_upper_bound(status) == status >= 200

\* StatusCode::is_success
is_success(status) == status >= 200 /\ status <= 299

Statuses == {200, 403, 429}
TransportError == [transport |-> "error", status |-> 0]
Response(status) == [transport |-> "ok", status |-> status]
SendOutcomes == {TransportError} \cup {Response(s) : s \in Statuses}

(***************************************************************************)
(* Regular expressions.  A match is Some([start, next, caps]): where it    *)
(* starts, the position after it and its capture groups.  Every pattern    *)
(* of the source is a chain of literals and negated character classes      *)
(* followed by one of the excluded characters, so the greedy class has     *)
(* exactly one possible end and an attempt at a position has at most one   *)
(* outcome.                                                                *)
(***************************************************************************)
CaptchaMarker ==
    <<"c","l","a","s","s","=","\"","g","-","r","e","c","a","p","t","c","h","a","\"">>
ApiKeyRe1Prefix ==
    <<"\"","I","N","N","E","R","T","U","B","E","_","A","P","I","_","K","E","Y","\"",":","\"">>
ApiKeyRe2Prefix ==
    <<"I","N","N","E","R","T","U","B","E","_","A","P","I","_","K","E","Y","\\","\"",":","\\","\"">>
ApiKeyRe2Suffix ==
    <<"\\","\"">>

\* "INNERTUBE_API_KEY":"([^"]+)"
api_key_re1(s, i) ==
    LET p == i + Len(ApiKeyRe1Prefix)
        e == SpanEnd(s, p, {"\""})
    IN  IF StartsAt(s, i, ApiKeyRe1Prefix) /\ e > p /\ e <= Len(s)
        THEN Some([start |-> i, next |-> e + 1, caps |-> <<SubSeq(s, p, e - 1)>>])
        ELSE None

\* INNERTUBE_API_KEY\\":\\"([^\\"]+)\\"
api_key_re2(s, i) ==
    LET p == i + Len(ApiKeyRe2Prefix)
        e == SpanEnd(s, p, {"\\", "\""})
    IN  IF StartsAt(s, i, ApiKeyRe2Prefix) /\ e > p /\ StartsAt(s, e, ApiKeyRe2Suffix)
        THEN Some([start |-> i, next |-> e + Len(ApiKeyRe2Suffix), caps |-> <<SubSeq(s, p, e - 1)>>])
        ELSE None

\* &fmt=[^&]+
FmtRePrefix == <<"&","f","m","t","=">>

fmt_re(s, i) ==
    LET p == i + Len(FmtRePrefix)
        e == SpanEnd(s, p, {"&"})
    IN  IF StartsAt(s, i, FmtRePrefix) /\ e > p
        THEN Some([start |-> i, next |-> e, caps |-> <<>>])
        ELSE None

\* line 213, the pattern
\*   <text start="([^"]*)" dur="([^"]*)">([^<]*)</text>
XmlReOpen == <<"<","t","e","x","t"," ","s","t","a","r","t","=","\"">>
XmlReDur == <<"\""," ","d","u","r","=","\"">>
XmlReGt == <<"\"",">">>
XmlReClose == <<"<","/","t","e","x","t",">">>

xml_re(s, i) ==
    LET p1 == i + Len(XmlReOpen)
        e1 == SpanEnd(s, p1, {"\""})
        p2 == e1 + Len(XmlReDur)
        e2 == SpanEnd(s, p2, {"\""})
        p3 == e2 + Len(XmlReGt)
        e3 == SpanEnd(s, p3, {"<"})
    IN  IF /\ StartsAt(s, i, XmlReOpen)
           /\ StartsAt(s, e1, XmlReDur)
           /\ StartsAt(s, e2, XmlReGt)
           /\ StartsAt(s, e3, XmlReClose)
        THEN Some([start |-> i, next |-> e3 + Len(XmlReClose),
                   caps |-> <<SubSeq(s, p1, e1 - 1), SubSeq(s, p2, e2 - 1),
                              SubSeq(s, p3, e3 - 1)>>])
        ELSE None

\* The compiled patterns of the source, by the name of their variable.
MatchAt(re, s, i) ==
    CASE re = "api_key_re1" -> api_key_re1(s, i)
      [] re = "api_key_re2" -> api_key_re2(s, i)
      [] re = "fmt_re" -> fmt_re(s, i)
      [] re = "xml_re" -> xml_re(s, i)

\* Regex::captures: the leftmost match at or after position from.
Captures(s, from, re) ==
    LET RECURSIVE Try(_)
        Try(i) == IF i > Len(s) THEN None
                  ELSE IF IsSome(MatchAt(re, s, i)) THEN MatchAt(re, s, i)
                  ELSE Try(i + 1)
    IN  Try(from)

\* Regex::captures_iter: successive non-overlapping leftmost matches.
CapturesIter(s, re) ==
    LET RECURSIVE Iter(_)
        Iter(from) == LET m == Captures(s, from, re)
                      IN  IF IsNone(m) THEN <<>>
                          ELSE <<Unwrap(m)>> \o Iter(Unwrap(m).next)
    IN  Iter(1)

\* The first pattern anywhere in the page, else the second; group 1.
ExtractApiKey(body) ==
    LET m1 == Captures(body, 1, "api_key_re1")
        m == IF IsSome(m1) THEN m1 ELSE Captures(body, 1, "api_key_re2")
    IN  IF IsSome(m) THEN Some(Unwrap(m).caps[1]) ELSE None

(***************************************************************************)
(* Requests.  A URL built with format! is the endpoint and the value put   *)
(* into it; the transcript URL is the text the provider supplied.          *)
(***************************************************************************)
WatchUrl(vid) == [endpoint |-> "watch", arg |-> vid]
PlayerUrl(key) == [endpoint |-> "player", arg |-> key]

\* build_client: headers every request of the invocation carries.
DefaultHeaders == {"User-Agent", "Accept-Language"}
WebHeaders ==
    {"Content-Type", "X-Youtube-Client-Name", "X-Youtube-Client-Version", "Origin", "Referer"}

PageRequest(vid) ==
    [method |-> "GET", url |-> WatchUrl(vid), headers |-> DefaultHeaders,
     referer |-> None, body |-> None]

PrimaryRequest(vid, key) ==
    [method |-> "POST", url |-> PlayerUrl(key),
     headers |-> DefaultHeaders \cup {"Content-Type"}, referer |-> None,
     body |-> Some([clientName |-> "ANDROID", clientVersion |-> "20.10.38",
                    hl |-> None, gl |-> None, videoId |-> vid])]

FallbackRequest(vid, key) ==
    [method |-> "POST", url |-> PlayerUrl(key),
     headers |-> DefaultHeaders \cup WebHeaders, referer |-> Some(WatchUrl(vid)),
     body |-> Some([clientName |-> "WEB", clientVersion |-> "2.20250122.01.00",
                    hl |-> Some("en"), gl |-> Some("US"), videoId |-> vid])]

TranscriptRequest(url) ==
    [method |-> "GET", url |-> [endpoint |-> "transcript", arg |-> url],
     headers |-> DefaultHeaders, referer |-> None, body |-> None]

(***************************************************************************)
(* serde_json::Value.  An object is [type |-> "object", val |-> f] with f  *)
(* a function from the field names it has to their values.                 *)
(***************************************************************************)
JNull == [type |-> "null"]
JStr(v) == [type |-> "string", val |-> v]
JArr(items) == [type |-> "array", val |-> items]
JObj(f) == [type |-> "object", val |-> f]
\* An object from a sequence of <<name, Option(value)>>: absent fields are None.
JObjOf(opts) ==
    JObj([n \in {opts[i][1] : i \in {j \in 1..Len(opts) : IsSome(opts[j][2])}} |->
            Unwrap(opts[CHOOSE i \in 1..Len(opts) : opts[i][1] = n][2])])

\* Value::get(name): None on a missing field and on anything but an object.
Get(v, name) ==
    IF v.type = "object" /\ name \in DOMAIN v.val THEN Some(v.val[name]) ELSE None
as_str(v) == IF v.type = "string" THEN Some(v.val) ELSE None
as_array(v) == IF v.type = "array" THEN Some(v.val) ELSE None
\* Option::and_then(|x| x.get(name))
AndThenGet(o, name) == IF IsSome(o) THEN Get(Unwrap(o), name) ELSE None

\* lines 140-143: nested under "captions" first, else at top level.
Tracklist(player_json) ==
    LET nested == AndThenGet(Get(player_json, "captions"), "playerCaptionsTracklistRenderer")
    IN  IF IsSome(nested) THEN nested
        ELSE Get(player_json, "playerCaptionsTracklistRenderer")

\* line 145
Tracks(tracklist) ==
    LET t == AndThenGet(tracklist, "captionTracks")
    IN  IF IsSome(t) THEN as_array(Unwrap(t)) ELSE None

is_playable_any_status(player_json) ==
    IsSome(AndThenGet(Get(player_json, "playabilityStatus"), "status"))

\* lines 148-152
is_playable(player_json) ==
    LET s == AndThenGet(Get(player_json, "playabilityStatus"), "status")
    IN  IsSome(s) /\ as_str(Unwrap(s)) = Some("OK")

\* t.get("languageCode").and_then(|l| l.as_str())
LanguageCode(track) ==
    LET l == Get(track, "languageCode")
    IN  IF IsSome(l) THEN as_str(Unwrap(l)) ELSE None

SelectIndexLastEn(tracks) ==
    LET en == {i \in 1..Len(tracks) :
                 Get(tracks[i], "languageCode") = Some(JStr("en"))}
    IN  IF en # {} THEN CHOOSE i \in en : \A j \in en : i >= j
        ELSE IF Len(tracks) > 0 THEN 1
        ELSE 0

SelectIndexWithUrl(tracks) ==
    LET has == {i \in 1..Len(tracks) :
                  \/ Get(tracks[i], "baseUrl") # None
                  \/ Get(tracks[i], "url") # None}
        en == {i \in has : Get(tracks[i], "languageCode") = Some(JStr("en"))}
    IN  IF en # {} THEN CHOOSE i \in en : \A j \in en : i <= j
        ELSE IF has # {} THEN CHOOSE i \in has : \A j \in has : i <= j
        ELSE IF Len(tracks) > 0 THEN 1
        ELSE 0

\* lines 167-170: index of the first track whose language code is "en",
\* else of the first track; 0 when the list is empty.
SelectIndex(tracks) ==
    LET en == {i \in 1..Len(tracks) : LanguageCode(tracks[i]) = Some("en")}
    IN  IF en # {} THEN CHOOSE i \in en : \A j \in en : i <= j
        ELSE IF Len(tracks) > 0 THEN 1
        ELSE 0

LangCodeOrEmpty(track) ==
    IF IsSome(LanguageCode(track)) THEN Unwrap(LanguageCode(track)) ELSE ""

LangCodeAlwaysEn(track) == "en"

\* lines 173-177
LangCode(track) ==
    IF IsSome(LanguageCode(track)) THEN Unwrap(LanguageCode(track)) ELSE "en"

\* lines 180-183: get("baseUrl").or_else(|| get("url")).and_then(as_str)
TrackUrl(track) ==
    LET b == Get(track, "baseUrl")
        u == IF IsSome(b) THEN b ELSE Get(track, "url")
    IN  IF IsSome(u) THEN as_str(Unwrap(u)) ELSE None

StripFmtToEnd(url) ==
    LET m == Captures(url, 1, "fmt_re")
    IN  IF IsNone(m) THEN url ELSE SubSeq(url, 1, Unwrap(m).start - 1)

(***************************************************************************)
(* lines 187-188: Regex::replace of &fmt=[^&]+ by "", first match only.    *)
(***************************************************************************)
StripFmt(url) ==
    LET m == Captures(url, 1, "fmt_re")
    IN  IF IsNone(m) THEN url
        ELSE SubSeq(url, 1, Unwrap(m).start - 1) \o SubSeq(url, Unwrap(m).next, Len(url))

(***************************************************************************)
(* str::parse::<f64>.  A number is [num, scale], standing for              *)
(* num / 10^scale with no trailing zero in the fraction.  The grammar is   *)
(* that of the standard library restricted to the characters the model's   *)
(* attribute values use: an optional sign, digits with at most one point,  *)
(* at least one digit.                                                     *)
(***************************************************************************)
DigitChars == <<"0","1","2","3","4","5","6","7","8","9">>
IsDigit(c) == \E d \in 1..10 : DigitChars[d] = c
DigitVal(c) == (CHOOSE d \in 1..10 : DigitChars[d] = c) - 1

F64(num, scale) ==
    LET RECURSIVE Norm(_, _)
        Norm(n, k) == IF k > 0 /\ n % 10 = 0 THEN Norm(n \div 10, k - 1)
                      ELSE [num |-> n, scale |-> k]
    IN  Norm(num, scale)

Zero == F64(0, 0)

ParseF64(s) ==
    LET signed == Len(s) > 0 /\ s[1] \in {"+", "-"}
        body == IF signed THEN Tail(s) ELSE s
        points == {i \in 1..Len(body) : body[i] = "."}
        digits == {i \in 1..Len(body) : IsDigit(body[i])}
        point == IF points = {} THEN Len(body) + 1 ELSE CHOOSE i \in points : TRUE
        RECURSIVE Mant(_)
        Mant(i) == IF i = 0 THEN 0
                   ELSE IF body[i] = "." THEN Mant(i - 1)
                   ELSE 10 * Mant(i - 1) + DigitVal(body[i])
        mag == F64(Mant(Len(body)), IF points = {} THEN 0 ELSE Len(body) - point)
    IN  IF /\ Cardinality(points) <= 1
           /\ digits # {}
           /\ \A i \in 1..Len(body) : i \in points \cup digits
        THEN Some(IF signed /\ s[1] = "-" THEN [mag EXCEPT !.num = 0 - mag.num] ELSE mag)
        ELSE None

ParseOrMinusOne(s) == IF IsSome(ParseF64(s)) THEN Unwrap(ParseF64(s)) ELSE F64(0 - 1, 0)

\* parse::<f64>().unwrap_or(0.0)
ParseOrZero(s) == IF IsSome(ParseF64(s)) THEN Unwrap(ParseF64(s)) ELSE Zero

SegmentSwapped(cap, lang) ==
    [text |-> decode_xml_entities(cap[3]),
     duration |-> ParseOrZero(cap[1]),
     offset |-> ParseOrZero(cap[2]),
     lang |-> lang]

\* lines 217-222
Segment(cap, lang) ==
    [text |-> decode_xml_entities(cap[3]),
     duration |-> ParseOrZero(cap[2]),
     offset |-> ParseOrZero(cap[1]),
     lang |-> lang]

ParseSegments(body, lang) ==
    LET ms == CapturesIter(body, "xml_re")
    IN  [i \in 1..Len(ms) |-> Segment(ms[i].caps, lang)]

(***************************************************************************)
(* What the network can answer.                                            *)
(***************************************************************************)
VideoIds == {<<"v","1">>}

Filler == <<"<","p",">">>
KeyPlain == ApiKeyRe1Prefix \o <<"K","1","\"">>
KeyEscaped == ApiKeyRe2Prefix \o <<"K","2">> \o ApiKeyRe2Suffix
KeyEmpty == ApiKeyRe1Prefix \o <<"\"">>
PageBodies ==
    { Str(<<Filler, KeyPlain>>), KeyEscaped, Str(<<KeyEscaped, KeyPlain>>),
      Str(<<CaptchaMarker, KeyPlain>>), CaptchaMarker, Filler, KeyEmpty, <<>> }

ReadError == [ok |-> FALSE, body |-> <<>>]
PageReads == {ReadError} \cup {[ok |-> TRUE, body |-> b] : b \in PageBodies}

UrlFmtMid == <<"a","?","v","=","1","&","f","m","t","=","s","r","v","3","&","l","=","e","n">>
UrlPlain == <<"b","?","v","=","1">>
UrlFmtFirst == <<"c","?","f","m","t","=","s","r","v","3","&","v","=","1">>
UrlFmtTwice == <<"d","?","v","=","1","&","f","m","t","=","s","r","v","3","&","f","m","t","=","x">>

Track(lang, baseUrl, url) ==
    JObjOf(<< <<"languageCode", lang>>, <<"baseUrl", baseUrl>>, <<"url", url>> >>)
TrackEn == Track(Some(JStr("en")), Some(JStr(UrlFmtMid)), None)
TrackEn2 == Track(Some(JStr("en")), Some(JStr(UrlFmtTwice)), Some(JStr(UrlPlain)))
TrackFr == Track(Some(JStr("fr")), Some(JStr(UrlPlain)), Some(JStr(UrlFmtMid)))
TrackNoLang == Track(None, None, Some(JStr(UrlFmtFirst)))
TrackDe == Track(Some(JStr("de")), Some(JNull), Some(JStr(UrlPlain)))
TrackNoUrl == Track(Some(JStr("it")), None, None)
TrackPool == {TrackEn, TrackEn2, TrackFr, TrackNoLang, TrackDe, TrackNoUrl}

SeqsUpTo(S, n) == UNION {[1..k -> S] : k \in 0..n}
TrackLists == SeqsUpTo(TrackPool, MaxTracks)

\* A track-list node: without captionTracks, with one that is no array, or
\* with an array of tracks.
Node(captionTracks) ==
    JObjOf(<< <<"captionTracks", captionTracks>>, <<"audioTracks", Some(JNull)>> >>)
Nodes == {Node(None), Node(Some(JNull))} \cup {Node(Some(JArr(l))) : l \in TrackLists}
Captions(node) == 
    JObjOf(<< <<"playerCaptionsTracklistRenderer", node>>,
              <<"playerCaptionsRenderer", Some(JNull)>> >>)
Playability(status) == JObjOf(<< <<"status", status>>, <<"reason", Some(JNull)>> >>)
PlayerDoc(captions, top, playability) ==
    JObjOf(<< <<"captions", captions>>, <<"playerCaptionsTracklistRenderer", top>>,
              <<"playabilityStatus", playability>>, <<"videoDetails", Some(JNull)>> >>)

\* Documents without a usable track list, in every combination of nesting and
\* playability, and documents with each track list.
SmallNodes ==
    {Node(None), Node(Some(JNull)), Node(Some(JArr(<<>>))), Node(Some(JArr(<<TrackEn>>)))}
CaptionsShapes ==
    {None, Some(JNull), Some(Captions(None))} \cup {Some(Captions(Some(n))) : n \in SmallNodes}
TopShapes == {None, Some(Node(None)), Some(Node(Some(JArr(<<TrackFr>>))))}
Playabilities ==
    {None, Some(Playability(None)), Some(Playability(Some(JNull))),
     Some(Playability(Some(JStr("OK")))), Some(Playability(Some(JStr("ERROR"))))}
PlayerDocs ==
    {PlayerDoc(c, t, p) : c \in CaptionsShapes, t \in TopShapes, p \in Playabilities}
    \cup {PlayerDoc(Some(Captions(Some(Node(Some(JArr(l)))))), None,
                    Some(Playability(Some(JStr("OK"))))) : l \in TrackLists}

JsonError == [ok |-> FALSE, json |-> JNull]
JsonReads == {JsonError} \cup {[ok |-> TRUE, json |-> d] : d \in PlayerDocs}

\* The parts of a transcript document: <text> elements of the expected shape
\* and other text.
Element(start, dur, text) ==
    [elem |-> TRUE, start |-> start, dur |-> dur, text |-> text,
     raw |-> Str(<< <<"<","t","e","x","t"," ","s","t","a","r","t","=","\"">>, start,
                    <<"\""," ","d","u","r","=","\"">>, dur, <<"\"",">">>, text,
                    <<"<","/","t","e","x","t",">">> >>)]
Other(raw) == [elem |-> FALSE, start |-> <<>>, dur |-> <<>>, text |-> <<>>, raw |-> raw]

ElemPlain == Element(<<"1">>, <<"2">>, <<"a">>)
ElemOdd == Element(<<"-","1">>, <<"x">>, <<"&","a","m","p",";","l","t",";">>)
ElemFrac == Element(<<>>, <<"0",".","5","0">>, <<"&","a","m","p",";","a","m","p",";">>)
ElemEnts ==
    Element(<<"1",".","5">>, <<"-","2">>,
            <<"&","l","t",";","&","g","t",";","&","q","u","o","t",";","&","#","3","9",";","&","a","p","o","s",";">>)
OtherSpace == Other(<<" ">>)
OtherNoDur ==
    Other(<<"<","t","e","x","t"," ","s","t","a","r","t","=","\"","1","\"",">","b","<","/","t","e","x","t",">">>)
OtherOpen ==
    Other(<<"<","t","e","x","t"," ","s","t","a","r","t","=","\"","1","\""," ","d","u","r","=","\"","2","\"",">">>)
PartPool == {ElemPlain, ElemOdd, ElemFrac, ElemEnts, OtherSpace, OtherNoDur, OtherOpen}
TranscriptDocs == SeqsUpTo(PartPool, MaxElems)

Raw(parts) == Str([i \in 1..Len(parts) |-> parts[i].raw])
TranscriptReads ==
    {[ok |-> FALSE, parts |-> <<>>]} \cup {[ok |-> TRUE, parts |-> d] : d \in TranscriptDocs}

(***************************************************************************)
(* State of one invocation.                                                *)
(*   pc               the await the invocation is suspended at             *)
(*   requests         the requests sent so far, in order                   *)
(*   responses        what each completed send() returned, in order        *)
(*   transcript_parts the document the transcript endpoint served, by      *)
(*                    parts (transcript_body is its text)                  *)
(*   d_*              a text and its decodings (specification DecodeSpec)  *)
(* The other variables are the locals of fetch_transcript.                 *)
(***************************************************************************)
VARIABLES pc, video_id, requests, responses, video_page_body, api_key,
          player_json, selected_track, lang_code, transcript_url,
          transcript_parts, transcript_body, result,
          d_pc, d_text, d_once, d_twice

page_vars == <<video_page_body, api_key>>
player_vars == <<player_json, selected_track, lang_code, transcript_url>>
transcript_vars == <<transcript_parts, transcript_body>>
d_vars == <<d_pc, d_text, d_once, d_twice>>
vars == <<pc, video_id, requests, responses, page_vars, player_vars, transcript_vars,
          result, d_vars>>

Locals ==
    /\ video_id = <<>>
    /\ requests = <<>>
    /\ responses = <<>>
    /\ video_page_body = <<>>
    /\ api_key = <<>>
    /\ player_json = JNull
    /\ selected_track = None
    /\ lang_code = ""
    /\ transcript_url = <<>>
    /\ transcript_parts = <<>>
    /\ transcript_body = <<>>
    /\ result = Pending

Init ==
    /\ pc = "start"
    /\ Locals
    /\ d_pc = "off"
    /\ d_text = <<>>
    /\ d_once = <<>>
    /\ d_twice = <<>>

Return(r) ==
    /\ pc' = "done"
    /\ result' = r

\* lines 38-46: build the client, send the watch-page request.
Begin ==
    /\ pc = "start"
    /\ \E vid \in VideoIds, built \in BOOLEAN :
        /\ video_id' = vid
        /\ IF ~built
           THEN Return(Err("ClientBuildError")) /\ UNCHANGED requests
           ELSE /\ requests' = Append(requests, PageRequest(vid))
                /\ pc' = "page_send"
                /\ UNCHANGED result
    /\ UNCHANGED <<responses, page_vars, player_vars, transcript_vars, d_vars>>

\* lines 47-58: the watch-page send() completes.
PageSendDone ==
    /\ pc = "page_send"
    /\ \E o \in SendOutcomes :
        /\ responses' = Append(responses, o)
        /\ IF o.transport = "error" THEN Return(ErrNet("page"))
           ELSE IF ~is_success(o.status) THEN Return(ErrHttp("PageLoadError", o.status))
           ELSE pc' = "page_body" /\ UNCHANGED result
    /\ UNCHANGED <<video_id, requests, page_vars, player_vars, transcript_vars, d_vars>>

PageCheckKeyFirst(body) ==
    IF IsSome(ExtractApiKey(body)) THEN Stay
    ELSE IF Contains(body, CaptchaMarker) THEN Err("CaptchaRequired")
    ELSE Err("CredentialNotFound")

\* lines 61-74: the captcha test stands before the key extraction.
PageCheck(body) ==
    IF Contains(body, CaptchaMarker) THEN Err("CaptchaRequired")
    ELSE IF IsNone(ExtractApiKey(body)) THEN Err("CredentialNotFound")
    ELSE Stay

\* lines 59-97: the page body is read; captcha check, key extraction, and
\* the primary (ANDROID) metadata request.
PageBodyDone ==
    /\ pc = "page_body"
    /\ \E r \in PageReads :
        LET key == ExtractApiKey(r.body)
        IN  /\ video_page_body' = r.body
            /\ IF ~r.ok
               THEN Return(ErrNet("page_body")) /\ UNCHANGED <<api_key, requests>>
               ELSE IF PageCheck(r.body).state = "Err"
               THEN Return(PageCheck(r.body)) /\ UNCHANGED <<api_key, requests>>
               ELSE /\ api_key' = Unwrap(key)
                    /\ requests' = Append(requests, PrimaryRequest(video_id, Unwrap(key)))
                    /\ pc' = "player_send"
                    /\ UNCHANGED result
    /\ UNCHANGED <<video_id, responses, player_vars, transcript_vars, d_vars>>

PrimarySendNeverFailed(o) == FALSE

\* lines 92-98: send().await.map_err(..)? returns on a transport failure.
PrimarySendFailed(o) == o.transport = "error"

\* lines 98-123: the primary send() completes; on a non-success status the
\* WEB request is sent.
PlayerSendDone ==
    /\ pc = "player_send"
    /\ \E o \in SendOutcomes :
        /\ responses' = Append(responses, o)
        /\ IF PrimarySendFailed(o)
           THEN Return(ErrNet("player")) /\ UNCHANGED requests
           ELSE IF ~is_success(o.status)
           THEN /\ requests' = Append(requests, FallbackRequest(video_id, api_key))
                /\ pc' = "web_send"
                /\ UNCHANGED result
           ELSE pc' = "player_json" /\ UNCHANGED <<result, requests>>
    /\ UNCHANGED <<video_id, page_vars, player_vars, transcript_vars, d_vars>>

PlayerResPrimary(primary, web) == primary

\* line 114: player_res is reassigned, so lines 127-131 read the WEB response.
PlayerRes(primary, web) == web

\* lines 124-136: the WEB send() completes.
WebSendDone ==
    /\ pc = "web_send"
    /\ \E o \in SendOutcomes :
        /\ responses' = Append(responses, o)
        /\ IF o.transport = "error" THEN Return(ErrNet("player_web"))
           ELSE IF ~is_success(PlayerRes(responses[2], o).status)
           THEN Return(ErrHttp("MetadataFetchError", PlayerRes(responses[2], o).status))
           ELSE pc' = "player_json" /\ UNCHANGED result
    /\ UNCHANGED <<video_id, requests, page_vars, player_vars, transcript_vars, d_vars>>

NoTracks(tracklist, tracks) == IsNone(tracks)

\* line 147
NoTracklist(tracklist, tracks) == IsNone(tracklist)

\* lines 140-188 on a parsed metadata document: the error returned, or the
\* selected track, its language code and the URL to request.
PlayerOutcome(json) ==
    LET tracklist == Tracklist(json)
        tracks == Tracks(tracklist)
        idx == SelectIndex(Unwrap(tracks))
        track == Unwrap(tracks)[idx]
        url == TrackUrl(track)
        Fail(e) == [r |-> e, selected |-> None, lang |-> "", url |-> <<>>]
    IN  IF NoTracklist(tracklist, tracks)
        THEN Fail(IF is_playable(json) THEN Err("TranscriptsDisabled")
                  ELSE Err("TranscriptUnavailable"))
        ELSE IF IsNone(tracks) THEN Fail(Err("TranscriptsDisabled"))
        ELSE IF Len(Unwrap(tracks)) = 0 THEN Fail(Err("TranscriptsDisabled"))
        ELSE IF idx = 0 THEN Fail(Err("NoCaptionTrack"))
        ELSE IF IsNone(url)
        THEN [r |-> Err("NoTranscriptUrl"), selected |-> Some([index |-> idx, track |-> track]),
              lang |-> LangCode(track), url |-> <<>>]
        ELSE [r |-> Stay, selected |-> Some([index |-> idx, track |-> track]),
              lang |-> LangCode(track), url |-> StripFmt(Unwrap(url))]

\* lines 137-194: the metadata body is parsed; track list, selection, URL,
\* and the transcript request.
PlayerJsonDone ==
    /\ pc = "player_json"
    /\ \E r \in JsonReads :
        LET out == PlayerOutcome(r.json)
        IN  /\ player_json' = r.json
            /\ IF ~r.ok
               THEN /\ Return(Err("PlayerParseError"))
                    /\ UNCHANGED <<selected_track, lang_code, transcript_url, requests>>
               ELSE /\ selected_track' = out.selected
                    /\ lang_code' = out.lang
                    /\ transcript_url' = out.url
                    /\ IF out.r.state = "Err"
                       THEN Return(out.r) /\ UNCHANGED requests
                       ELSE /\ requests' = Append(requests, TranscriptRequest(out.url))
                            /\ pc' = "transcript_send"
                            /\ UNCHANGED result
    /\ UNCHANGED <<video_id, responses, page_vars, transcript_vars, d_vars>>

TranscriptStatusSuccessFirst(status) ==
    IF ~is_success(status) THEN ErrHttp("TranscriptFetchError", status)
    ELSE IF status = 429 THEN Err("RateLimited")
    ELSE Stay

\* lines 196-205: the 429 test stands before the is_success test.
TranscriptStatus(status) ==
    IF status = 429 THEN Err("RateLimited")
    ELSE IF ~is_success(status) THEN ErrHttp("TranscriptFetchError", status)
    ELSE Stay

\* lines 194-206: the transcript send() completes.  Nothing reads the metadata
\* document after line 184 (the selected track, its language code and its
\* URL were taken from it), so the model lets go of it here.
TranscriptSendDone ==
    /\ pc = "transcript_send"
    /\ \E o \in SendOutcomes :
        /\ responses' = Append(responses, o)
        /\ IF o.transport = "error" THEN Return(ErrNet("transcript"))
           ELSE IF TranscriptStatus(o.status).state = "Err"
           THEN Return(TranscriptStatus(o.status))
           ELSE pc' = "transcript_body" /\ UNCHANGED result
    /\ player_json' = JNull
    /\ UNCHANGED <<video_id, requests, page_vars, selected_track, lang_code, transcript_url,
                   transcript_vars, d_vars>>

TranscriptResultAlwaysOk(segments) == Ok(segments)

\* lines 225-229
TranscriptResult(segments) ==
    IF Len(segments) = 0 THEN Err("EmptyTranscript") ELSE Ok(segments)

\* lines 210-229: the transcript body is read and parsed.
TranscriptBodyDone ==
    /\ pc = "transcript_body"
    /\ \E r \in TranscriptReads :
        LET segments == ParseSegments(Raw(r.parts), lang_code)
        IN  /\ transcript_parts' = r.parts
            /\ transcript_body' = Raw(r.parts)
            /\ IF ~r.ok THEN Return(ErrNet("transcript_body"))
               ELSE Return(TranscriptResult(segments))
    /\ UNCHANGED <<video_id, requests, responses, page_vars, player_vars, d_vars>>

Next ==
    \/ Begin
    \/ PageSendDone
    \/ PageBodyDone
    \/ PlayerSendDone
    \/ WebSendDone
    \/ PlayerJsonDone
    \/ TranscriptSendDone
    \/ TranscriptBodyDone

Spec == Init /\ [][Next]_vars

\* Every awaited operation completes: send(), text() and json() resolve with
\* a value or with an error, and the runtime then resumes the invocation.
FairSpec == Spec /\ WF_vars(Next)

(***************************************************************************)
(* decode_xml_entities on its own: a text is decoded, and the outcome is   *)
(* decoded again.                                                          *)
(***************************************************************************)
TextPieces ==
    { EntAmp, EntLt, EntGt, EntQuot, EntNum39, EntApos,
      <<"&">>, <<"a","m","p",";">>, <<"l","t",";">>, <<"a">> }
DecodeInputs == {Str(parts) : parts \in SeqsUpTo(TextPieces, MaxDecodeParts)}

DecodeInit ==
    /\ pc = "off"
    /\ Locals
    /\ d_pc = "input"
    /\ d_text \in DecodeInputs
    /\ d_once = <<>>
    /\ d_twice = <<>>

DecodeOnce ==
    /\ d_pc = "input"
    /\ d_once' = decode_xml_entities(d_text)
    /\ d_pc' = "once"
    /\ UNCHANGED <<pc, video_id, requests, responses, page_vars, player_vars,
                   transcript_vars, result, d_text, d_twice>>

DecodeAgain ==
    /\ d_pc = "once"
    /\ d_twice' = decode_xml_entities(d_once)
    /\ d_pc' = "twice"
    /\ UNCHANGED <<pc, video_id, requests, responses, page_vars, player_vars,
                   transcript_vars, result, d_text, d_once>>

DecodeNext == DecodeOnce \/ DecodeAgain

DecodeSpec == DecodeInit /\ [][DecodeNext]_vars

(***************************************************************************)
(* Properties.                                                             *)
(***************************************************************************)
\* What a request is, read off the request itself.
RequestKind(req) ==
    IF req.url.endpoint = "watch" THEN "page"
    ELSE IF req.url.endpoint = "transcript" THEN "transcript"
    ELSE IF Unwrap(req.body).clientName = "ANDROID" THEN "primary"
    ELSE "fallback"
KindsSent == [i \in 1..Len(requests) |-> RequestKind(requests[i])]
IndicesOf(kind) == {i \in 1..Len(requests) : KindsSent[i] = kind}
\* The k-th send() has completed with an HTTP response of that class.
Answered(k) == k <= Len(responses) /\ responses[k].transport = "ok"
SuccessAt(k) == Answered(k) /\ responses[k].status \in 200..299
NonSuccessAt(k) == Answered(k) /\ responses[k].status \notin 200..299

\* C1: a primary (ANDROID) metadata call answered with a non-success status
\* is followed by exactly one fallback call, with the WEB persona and its
\* additional headers; a primary call answered with a success status is
\* followed by none; and when the fallback is answered with a non-success
\* status too, the invocation fails with MetadataFetchError carrying the
\* fallback response's status.
C1_FallbackExactlyOnce ==
    /\ Cardinality(IndicesOf("fallback")) <= 1
    /\ IndicesOf("fallback") \subseteq {3}
    /\ NonSuccessAt(2) => IndicesOf("fallback") = {3}
    /\ ~NonSuccessAt(2) => IndicesOf("fallback") = {}
    /\ \A i \in IndicesOf("fallback") :
        /\ requests[i].method = "POST"
        /\ requests[i].url = requests[2].url
        /\ Unwrap(requests[i].body).clientName = "WEB"
        /\ Unwrap(requests[i].body).videoId = video_id
        /\ {"X-Youtube-Client-Name", "X-Youtube-Client-Version", "Origin", "Referer"}
               \subseteq requests[i].headers
        /\ requests[i].referer = Some(requests[1].url)
        /\ requests[2].headers \cap {"X-Youtube-Client-Name", "X-Youtube-Client-Version",
                                     "Origin", "Referer"} = {}
    /\ NonSuccessAt(2) /\ NonSuccessAt(3) =>
        /\ pc = "done"
        /\ result.state = "Err"
        /\ result.kind = "MetadataFetchError"
        /\ result.status = responses[3].status
    /\ result.kind = "MetadataFetchError" => NonSuccessAt(2) /\ NonSuccessAt(3)

\* The primary and the fallback both failed, with different statuses.
C1_Witness ==
    /\ result.kind = "MetadataFetchError"
    /\ NonSuccessAt(2)
    /\ NonSuccessAt(3)
    /\ responses[2].status # responses[3].status
    /\ Cardinality(IndicesOf("fallback")) = 1

\* The stages of an invocation, as its requests and responses show them.
IsPrefix(a, b) == Len(a) <= Len(b) /\ \A i \in 1..Len(a) : a[i] = b[i]
C2_Order ==
    /\ \/ IsPrefix(KindsSent, <<"page", "primary", "transcript">>)
       \/ IsPrefix(KindsSent, <<"page", "primary", "fallback", "transcript">>)
    /\ Len(requests) <= 4
    /\ Len(responses) <= Len(requests)
    /\ Len(requests) <= Len(responses) + 1
    /\ Len(requests) >= 2 =>
        /\ SuccessAt(1)
        /\ video_page_body # <<>>
        /\ api_key # <<>>
        /\ requests[2].url.arg = api_key
    /\ \A i \in IndicesOf("fallback") : NonSuccessAt(i - 1)
    /\ \A i \in IndicesOf("transcript") : SuccessAt(i - 1)
    /\ result.state # "pending" <=> pc = "done"
    /\ result.kind = "CredentialNotFound" => KindsSent = <<"page">>
    /\ pc = "done" /\ Len(responses) > 0 /\ ~SuccessAt(Len(responses)) =>
        /\ result.state = "Err"
        /\ Len(requests) = Len(responses)
        /\ result.kind \in
             CASE KindsSent[Len(responses)] = "page" -> {"NetworkError", "PageLoadError"}
               [] KindsSent[Len(responses)] = "primary" -> {"NetworkError"}
               [] KindsSent[Len(responses)] = "fallback" -> {"NetworkError", "MetadataFetchError"}
               [] OTHER -> {"NetworkError", "RateLimited", "TranscriptFetchError"}

\* A step of an invocation that has a result does not exist, and a step
\* never takes back a request or a response.
C2_Step ==
    /\ result.state = "pending"
    /\ IsPrefix(requests, requests')
    /\ IsPrefix(responses, responses')

\* C2: the requests of an invocation go out in the order watch page, primary
\* metadata, optional fallback metadata, transcript, one at a time and each
\* only after the stage before it succeeded; once a stage has failed the
\* invocation has ended with that stage's error and sends nothing more (in
\* particular when the page holds no API key); an invocation sends at most
\* four requests and ends.
C2_StrictlyForward == []C2_Order /\ [][C2_Step]_vars /\ <>(pc = "done")

\* All four requests were sent and the invocation has ended.
C2_Witness ==
    /\ pc = "done"
    /\ KindsSent = <<"page", "primary", "fallback", "transcript">>
    /\ result.state = "Ok"

\* The transcript request was answered with a success status and its body
\* was read.
TranscriptBodyRead ==
    /\ pc = "done"
    /\ Len(requests) > 0
    /\ KindsSent[Len(requests)] = "transcript"
    /\ SuccessAt(Len(requests))
    /\ result.kind # "NetworkError"

\* C3: an Ok result holds at least one segment; when the transcript body was
\* read and parsing it yields no segment (an empty or whitespace-only body
\* included), the result is the EmptyTranscript error.
C3_NeverEmptyOk ==
    /\ result.state = "Ok" => Len(result.segments) >= 1 /\ TranscriptBodyRead
    /\ TranscriptBodyRead /\ Len(ParseSegments(transcript_body, lang_code)) = 0 =>
        result = Err("EmptyTranscript")
    /\ TranscriptBodyRead /\ (\A i \in 1..Len(transcript_body) : transcript_body[i] = " ") =>
        result = Err("EmptyTranscript")

\* A whitespace-only body was served with a success status.
C3_Witness ==
    /\ TranscriptBodyRead
    /\ transcript_body = <<" ">>
    /\ result = Err("EmptyTranscript")

\* The metadata document, read field by field.
HasField(v, name) == v.type = "object" /\ name \in DOMAIN v.val
MetadataParsed == player_json # JNull
HasNestedNode ==
    /\ HasField(player_json, "captions")
    /\ HasField(player_json.val["captions"], "playerCaptionsTracklistRenderer")
HasTopNode == HasField(player_json, "playerCaptionsTracklistRenderer")
\* The node the lookup finds: the nested one when there is one.
FoundNode ==
    IF HasNestedNode THEN player_json.val["captions"].val["playerCaptionsTracklistRenderer"]
    ELSE player_json.val["playerCaptionsTracklistRenderer"]
HasTrackArray ==
    /\ HasField(FoundNode, "captionTracks")
    /\ FoundNode.val["captionTracks"].type = "array"
TrackArray == FoundNode.val["captionTracks"].val
StatusIsOK ==
    /\ HasField(player_json, "playabilityStatus")
    /\ HasField(player_json.val["playabilityStatus"], "status")
    /\ player_json.val["playabilityStatus"].val["status"] = JStr("OK")
LangIs(track, code) ==
    HasField(track, "languageCode") /\ track.val["languageCode"] = JStr(code)

\* C4: over a non-empty caption-track list, the selected track is the first
\* one whose language code is exactly "en", wherever it stands, when there
\* is one, and the first track of the list otherwise.
C4_TrackSelection ==
    MetadataParsed /\ (HasNestedNode \/ HasTopNode) /\ HasTrackArray /\ Len(TrackArray) > 0 =>
        /\ IsSome(selected_track)
        /\ LET i == Unwrap(selected_track).index
               en == {j \in 1..Len(TrackArray) : LangIs(TrackArray[j], "en")}
           IN  /\ i \in 1..Len(TrackArray)
               /\ Unwrap(selected_track).track = TrackArray[i]
               /\ en # {} => i \in en /\ \A j \in en : i <= j
               /\ en = {} => i = 1

\* A list of three whose first track is not "en" and whose two others are.
C4_Witness ==
    /\ MetadataParsed /\ (HasNestedNode \/ HasTopNode) /\ HasTrackArray
    /\ Len(TrackArray) = 3
    /\ ~LangIs(TrackArray[1], "en")
    /\ LangIs(TrackArray[2], "en")
    /\ LangIs(TrackArray[3], "en")
    /\ TrackArray[2] # TrackArray[3]
    /\ IsSome(selected_track)
    /\ Unwrap(selected_track).index = 2

\* C5: a parsed metadata document with the track-list node in neither place
\* gives TranscriptsDisabled when playabilityStatus.status is "OK" and
\* TranscriptUnavailable for any other or missing status; no transcript
\* request is sent.
C5_NoTracklistNode ==
    MetadataParsed /\ ~HasNestedNode /\ ~HasTopNode =>
        /\ pc = "done"
        /\ result = IF StatusIsOK THEN Err("TranscriptsDisabled")
                    ELSE Err("TranscriptUnavailable")
        /\ IndicesOf("transcript") = {}

\* No node, and a playability status that is a string other than "OK".
C5_Witness ==
    /\ MetadataParsed /\ ~HasNestedNode /\ ~HasTopNode
    /\ HasField(player_json, "playabilityStatus")
    /\ HasField(player_json.val["playabilityStatus"], "status")
    /\ player_json.val["playabilityStatus"].val["status"] = JStr("ERROR")
    /\ result = Err("TranscriptUnavailable")

\* C6: a parsed metadata document whose track-list node has no caption-track
\* list, or an empty one, gives TranscriptsDisabled whatever the playability
\* status is, never TranscriptUnavailable.
C6_EmptyTrackList ==
    /\ MetadataParsed
    /\ HasNestedNode \/ HasTopNode
    /\ ~HasTrackArray \/ Len(TrackArray) = 0
    => /\ pc = "done"
       /\ result = Err("TranscriptsDisabled")

\* A node without any caption-track list in a document that is not playable.
C6_Witness ==
    /\ MetadataParsed
    /\ HasNestedNode \/ HasTopNode
    /\ ~HasField(FoundNode, "captionTracks")
    /\ ~StatusIsOK
    /\ result = Err("TranscriptsDisabled")

\* C7: decoding is idempotent and order-correct: "&amp;lt;" decodes to
\* "&lt;", and decoding a decoded text again does not change it.
C7_DecodeIdempotentOrderCorrect ==
    /\ d_pc \in {"once", "twice"} /\ d_text = EntAmp \o <<"l","t",";">> => d_once = EntLt
    /\ d_pc = "twice" => d_twice = d_once

\* The segments of a successful result, with the elements they come from.
IsElem(part) == part.elem
Elements == SelectSeq(transcript_parts, IsElem)
HandledEscapes == {EntAmp, EntLt, EntGt, EntQuot, EntNum39, EntApos}

\* C8 as stated: no decoded text of a successful result contains any of the
\* handled escape sequences &amp; &lt; &gt; &quot; &#39; &apos;.
C8_NoHandledEscapes ==
    result.state = "Ok" =>
        \A i \in 1..Len(result.segments) :
            \A e \in HandledEscapes : ~Contains(result.segments[i].text, e)

\* C8, amended: no decoded text of a successful result contains &lt; &gt;
\* &quot; &#39; or &apos;, and it contains &amp; exactly when the element's
\* text contained &amp;amp;.
C8_NoEscapesButAmp ==
    result.state = "Ok" =>
        /\ Len(result.segments) = Len(Elements)
        /\ \A i \in 1..Len(result.segments) :
            /\ \A e \in HandledEscapes \ {EntAmp} : ~Contains(result.segments[i].text, e)
            /\ Contains(result.segments[i].text, EntAmp)
                 <=> Contains(Elements[i].text, EntAmp \o <<"a","m","p",";">>)

\* An element carrying each of the five other escapes was decoded, next to
\* one whose decoded text keeps &amp;.
C8_Witness ==
    /\ result.state = "Ok"
    /\ Len(result.segments) = 2
    /\ \A e \in HandledEscapes \ {EntAmp} : Contains(Elements[1].text, e)
    /\ result.segments[1].text = <<"<", ">", "\"", "'", "'">>
    /\ Contains(result.segments[2].text, EntAmp)

\* C9: a transcript body holding N >= 1 elements of the shape
\* <text start=".." dur="..">..</text> gives exactly N segments, one per
\* element and in document order, each with that element's start, duration
\* and text (as parsed and decoded).
C9_OneSegmentPerElement ==
    TranscriptBodyRead /\ Len(Elements) >= 1 =>
        /\ result.state = "Ok"
        /\ Len(result.segments) = Len(Elements)
        /\ \A i \in 1..Len(Elements) :
            /\ result.segments[i].offset = ParseOrZero(Elements[i].start)
            /\ result.segments[i].duration = ParseOrZero(Elements[i].dur)
            /\ result.segments[i].text = decode_xml_entities(Elements[i].text)

\* Two different elements gave two segments, in document order.
C9_Witness ==
    /\ result.state = "Ok"
    /\ Len(Elements) = 2
    /\ Elements[1] # Elements[2]
    /\ Len(result.segments) = 2
    /\ result.segments[1].offset # result.segments[2].offset

\* C10: every segment of a successful result has duration >= 0 and
\* offset >= 0, whatever numbers the start and dur attributes carry.
C10_NonNegative ==
    result.state = "Ok" =>
        \A i \in 1..Len(result.segments) :
            /\ result.segments[i].duration.num >= 0
            /\ result.segments[i].offset.num >= 0

\* An attribute value no number parser accepts: empty, or holding a
\* character that is neither a digit, a sign nor a point.
NotANumber(s) ==
    \/ Len(s) = 0
    \/ \E i \in 1..Len(s) : ~IsDigit(s[i]) /\ s[i] \notin {"+", "-", "."}

\* C11: a matched <text> element whose start or dur is not a number still
\* gives its segment, with that one field 0.0 and the other fields taken
\* from the element as usual; the invocation does not fail for it, and
\* neither that segment nor any other is dropped.
C11_UnparseableIsZero ==
    TranscriptBodyRead /\ (\E i \in 1..Len(Elements) :
                              NotANumber(Elements[i].start) \/ NotANumber(Elements[i].dur)) =>
        /\ result.state = "Ok"
        /\ Len(result.segments) = Len(Elements)
        /\ \A i \in 1..Len(Elements) :
            /\ result.segments[i].text = decode_xml_entities(Elements[i].text)
            /\ result.segments[i].lang = lang_code
            /\ result.segments[i].offset =
                 IF NotANumber(Elements[i].start) THEN [num |-> 0, scale |-> 0]
                 ELSE ParseOrZero(Elements[i].start)
            /\ result.segments[i].duration =
                 IF NotANumber(Elements[i].dur) THEN [num |-> 0, scale |-> 0]
                 ELSE ParseOrZero(Elements[i].dur)

\* An element with dur="x" and one with start="" stand in one body; both
\* gave their segment, the other field of each being the number written.
C11_Witness ==
    /\ result.state = "Ok"
    /\ Len(Elements) = 2
    /\ Elements[1].dur = <<"x">>
    /\ Elements[2].start = <<>>
    /\ Len(result.segments) = 2
    /\ result.segments[1].duration = [num |-> 0, scale |-> 0]
    /\ result.segments[1].offset = [num |-> 0 - 1, scale |-> 0]
    /\ result.segments[2].offset = [num |-> 0, scale |-> 0]
    /\ result.segments[2].duration = [num |-> 5, scale |-> 1]

\* The transcript requests sent so far, the track they were sent for, and
\* that track's URL as the metadata document gives it.
TranscriptRequested == IndicesOf("transcript") # {}
RequestedUrl == requests[Len(requests)].url.arg
SelectedTrack == Unwrap(selected_track).track
SelectedUrl ==
    IF HasField(SelectedTrack, "baseUrl") THEN SelectedTrack.val["baseUrl"].val
    ELSE SelectedTrack.val["url"].val
FmtSrv3 == <<"&","f","m","t","=","s","r","v","3">>
FmtName == <<"f","m","t","=">>
\* url without the characters at positions at..at+n-1
Without(url, at, n) == SubSeq(url, 1, at - 1) \o SubSeq(url, at + n, Len(url))

HasFmtParameter(url) ==
    \E at \in 2..Len(url) : url[at - 1] \in {"?", "&"} /\ StartsAt(url, at, FmtName)

\* C13: no URL requested from a track carries a fmt query parameter,
\* wherever the parameter stood in the track's URL and however many times.
C13_NoFmtRequested ==
    \A i \in IndicesOf("transcript") : ~HasFmtParameter(requests[i].url.arg)

\* C14: a transcript request answered 429 ends the invocation with
\* RateLimited, never TranscriptFetchError; answered with another
\* non-success status it ends with TranscriptFetchError carrying that
\* status; either way nothing further is sent and no segment is returned.
\* RateLimited is the result only then: a 429 to the watch page request or
\* to a metadata request gives that stage's own outcome.
C14_RateLimitedOnlyForTranscript ==
    /\ \A i \in IndicesOf("transcript") :
        /\ Answered(i) /\ responses[i].status = 429 =>
            /\ result = Err("RateLimited")
            /\ pc = "done" /\ Len(requests) = i /\ Len(responses) = i
        /\ NonSuccessAt(i) /\ responses[i].status # 429 =>
            /\ result = ErrHttp("TranscriptFetchError", responses[i].status)
            /\ pc = "done" /\ Len(requests) = i /\ Len(responses) = i
    /\ result.kind = "RateLimited" =>
        /\ KindsSent[Len(requests)] = "transcript"
        /\ Answered(Len(requests)) /\ responses[Len(requests)].status = 429
    /\ \A i \in IndicesOf("page") :
        Answered(i) /\ responses[i].status = 429 => result = ErrHttp("PageLoadError", 429)
    /\ \A i \in IndicesOf("primary") :
        Answered(i) /\ responses[i].status = 429 =>
            i + 1 \in IndicesOf("fallback")
    /\ \A i \in IndicesOf("fallback") :
        Answered(i) /\ responses[i].status = 429 => result = ErrHttp("MetadataFetchError", 429)

\* The primary metadata request was answered 429 and the fallback was sent;
\* later the transcript request was answered 429 and that ended the
\* invocation with RateLimited.
C14_Witness ==
    /\ KindsSent = <<"page", "primary", "fallback", "transcript">>
    /\ Len(responses) = 4
    /\ responses[2].status = 429
    /\ responses[4].status = 429
    /\ result = Err("RateLimited")

\* The watch page was answered with a success status and its body was read.
PageBodyRead ==
    /\ SuccessAt(1)
    /\ pc \notin {"page_send", "page_body"}
    /\ result # ErrNet("page_body")

\* C15: a watch page answered with a non-success status ends the invocation
\* with PageLoadError carrying that status; a watch page whose body holds
\* the bot-challenge marker ends it with CaptchaRequired, also when the body
\* holds an API key; in both cases the page request is the only request of
\* the invocation.
C15_PageStageErrors ==
    /\ NonSuccessAt(1) =>
        /\ result = ErrHttp("PageLoadError", responses[1].status)
        /\ pc = "done" /\ KindsSent = <<"page">> /\ Len(responses) = 1
    /\ PageBodyRead /\ Contains(video_page_body, CaptchaMarker) =>
        /\ result = Err("CaptchaRequired")
        /\ pc = "done" /\ KindsSent = <<"page">> /\ Len(responses) = 1
    /\ result.kind \in {"PageLoadError", "CaptchaRequired"} => KindsSent = <<"page">>

\* The body held the marker and, after it, a key that the first key pattern
\* extracts.
C15_Witness ==
    /\ PageBodyRead
    /\ Contains(video_page_body, CaptchaMarker)
    /\ Contains(video_page_body, ApiKeyRe1Prefix)
    /\ IsSome(ExtractApiKey(video_page_body))
    /\ result = Err("CaptchaRequired")
    /\ KindsSent = <<"page">>

\* C16: the segments of a successful result all carry one lang value, and it
\* is the language code of the selected track, the track whose URL was
\* requested.
C16_LangIsSelectedTracks ==
    result.state = "Ok" =>
        /\ IsSome(selected_track)
        /\ \A i \in 1..Len(result.segments) :
            LangIs(SelectedTrack, result.segments[i].lang)

\* The selected track's language code as the metadata document gives it,
\* or nothing when the track has no languageCode string.
SelectedHasLang ==
    /\ HasField(SelectedTrack, "languageCode")
    /\ SelectedTrack.val["languageCode"].type = "string"

\* C16 amended: the segments of a successful result all carry one lang
\* value: the language code of the selected track, the track whose URL was
\* requested, or "en" when that track has no languageCode string.
C16_LangIsSelectedTracksOrEn ==
    result.state = "Ok" =>
        /\ IsSome(selected_track)
        /\ TranscriptRequested
        /\ \E field \in {"baseUrl", "url"} :
            /\ HasField(SelectedTrack, field)
            /\ SelectedTrack.val[field].type = "string"
            /\ RequestedUrl \in {SelectedTrack.val[field].val,
                                 StripFmt(SelectedTrack.val[field].val)}
        /\ \A i \in 1..Len(result.segments) :
            result.segments[i].lang =
                IF SelectedHasLang THEN SelectedTrack.val["languageCode"].val ELSE "en"

\* Two segments tagged with the language code of a selected track that is
\* not English.
C16_Witness ==
    /\ result.state = "Ok"
    /\ Len(result.segments) = 2
    /\ SelectedHasLang
    /\ SelectedTrack.val["languageCode"].val = "fr"
    /\ result.segments[1].lang = "fr"
    /\ result.segments[2].lang = "fr"

\* The tracks the lookup of the nested node, and of the top-level node,
\* would give.
FieldIsString(v, name) == HasField(v, name) /\ v.val[name].type = "string"
NestedNode == player_json.val["captions"].val["playerCaptionsTracklistRenderer"]
TopNode == player_json.val["playerCaptionsTracklistRenderer"]

\* C17: the metadata lookups are ordered and the first match wins: with a
\* nested and a top-level track-list node both present the tracks are those
\* of the nested node; a selected track with baseUrl and url both present is
\* requested from its baseUrl; and whenever one of the two fields of the
\* selected track holds a URL, a transcript request derived from one of
\* them is sent.
C17_OrderedLookups ==
    MetadataParsed /\ IsSome(selected_track) =>
        /\ HasNestedNode /\ HasTopNode =>
             /\ HasField(NestedNode, "captionTracks")
             /\ NestedNode.val["captionTracks"].type = "array"
             /\ Unwrap(selected_track).index \in 1..Len(NestedNode.val["captionTracks"].val)
             /\ SelectedTrack =
                  NestedNode.val["captionTracks"].val[Unwrap(selected_track).index]
        /\ FieldIsString(SelectedTrack, "baseUrl") /\ FieldIsString(SelectedTrack, "url") =>
             /\ TranscriptRequested
             /\ RequestedUrl = StripFmt(SelectedTrack.val["baseUrl"].val)
        /\ FieldIsString(SelectedTrack, "baseUrl") \/ FieldIsString(SelectedTrack, "url") =>
             /\ TranscriptRequested
             /\ \E field \in {"baseUrl", "url"} :
                 /\ FieldIsString(SelectedTrack, field)
                 /\ RequestedUrl = StripFmt(SelectedTrack.val[field].val)

\* Request k was sent and got no response: the transport failed.
TransportFailedAt(k) == k <= Len(responses) /\ responses[k].transport = "error"

\* C18: the fallback metadata request is sent only after the primary one
\* was answered with a non-success status; a transport failure of the
\* primary request ends the invocation with a network error and no fallback
\* or later request, and a transport failure of the fallback request ends
\* it with a network error, not with MetadataFetchError.
C18_FallbackOnlyOnStatus ==
    /\ \A i \in IndicesOf("fallback") : i - 1 \in IndicesOf("primary") /\ NonSuccessAt(i - 1)
    /\ \A i \in IndicesOf("primary") :
        TransportFailedAt(i) =>
            /\ result.state = "Err" /\ result.kind = "NetworkError"
            /\ pc = "done" /\ Len(requests) = i /\ Len(responses) = i
    /\ \A i \in IndicesOf("fallback") :
        TransportFailedAt(i) =>
            /\ result.state = "Err" /\ result.kind = "NetworkError"
            /\ pc = "done" /\ Len(requests) = i /\ Len(responses) = i

\* The primary metadata request failed in transport and the invocation
\* ended there.
C18_Witness ==
    /\ KindsSent = <<"page", "primary">>
    /\ TransportFailedAt(2)
    /\ result.kind = "NetworkError"
    /\ pc = "done"

\* C19: a selected track without a languageCode string (the first track of
\* a list in which no track has the code "en") does not stop the
\* invocation: its URL is requested, and every segment of the result is
\* tagged lang = "en".
C19_MissingLangIsEn ==
    IsSome(selected_track) /\ ~SelectedHasLang =>
        /\ lang_code = "en"
        /\ MetadataParsed =>
            /\ Unwrap(selected_track).index = 1
            /\ SelectedTrack = TrackArray[1]
            /\ \A i \in 1..Len(TrackArray) : ~LangIs(TrackArray[i], "en")
            /\ FieldIsString(SelectedTrack, "baseUrl")
                 \/ (~HasField(SelectedTrack, "baseUrl") /\ FieldIsString(SelectedTrack, "url"))
               => TranscriptRequested /\ result.state # "Err"
        /\ result.state = "Ok" =>
            \A i \in 1..Len(result.segments) : result.segments[i].lang = "en"

\* Two segments tagged "en" came from a selected track that has no
\* languageCode.
C19_Witness ==
    /\ result.state = "Ok"
    /\ IsSome(selected_track)
    /\ ~HasField(SelectedTrack, "languageCode")
    /\ Len(result.segments) = 2
    /\ result.segments[1].lang = "en"
    /\ result.segments[2].lang = "en"

\* The track the selection policy names in the list found: the first track
\* with the code "en", else the first track.
HasTracks == MetadataParsed /\ (HasNestedNode \/ HasTopNode) /\ HasTrackArray /\ Len(TrackArray) > 0
PolicyTrack ==
    LET en == {j \in 1..Len(TrackArray) : LangIs(TrackArray[j], "en")}
    IN  IF en # {} THEN TrackArray[CHOOSE j \in en : \A k \in en : j <= k]
        ELSE TrackArray[1]
HoldsUrl(track) == FieldIsString(track, "baseUrl") \/ FieldIsString(track, "url")

\* C20: only the selected track is asked for a URL: when it holds none, the
\* invocation ends with the error 'No transcript URL found', sends no
\* transcript request and tries no other track, even when another track of
\* the list holds a URL; the error 'No caption track found' is never the
\* result.
C20_OnlySelectedTrackUrl ==
    /\ HasTracks /\ ~HoldsUrl(PolicyTrack) =>
        /\ result = Err("NoTranscriptUrl")
        /\ pc = "done"
        /\ ~TranscriptRequested
        /\ SelectedTrack = PolicyTrack
    /\ result.kind = "NoTranscriptUrl" => ~TranscriptRequested
    /\ result.kind # "NoCaptionTrack"

\* The first of two tracks, neither of them "en", holds no URL and the
\* second holds one; the invocation ended without a transcript request.
C20_Witness ==
    /\ HasTracks
    /\ Len(TrackArray) = 2
    /\ PolicyTrack = TrackArray[1]
    /\ ~HoldsUrl(TrackArray[1])
    /\ FieldIsString(TrackArray[2], "baseUrl")
    /\ result = Err("NoTranscriptUrl")
    /\ ~TranscriptRequested

====
